---- MODULE Spec2Model ----
(***************************************************************************)
(* Model of src/src/server.js: the GET /api/probabilities handler, the     *)
(* climatology fetcher getClimatology, the month derivation monthFromISO   *)
(* and the estimator estimateProbabilitiesForMonth with its helpers        *)
(* clampPct and rampUp.                                                    *)
(*                                                                         *)
(* JavaScript values are tagged records ([t |-> "undefined"], "null",      *)
(* "NaN", "string", "object", "number").  A number is the rational         *)
(* num/den; climate values arrive from JSON with one decimal (den = 10),   *)
(* percentages are integers (den = 1).  The field err is the IEEE-754      *)
(* rounding error the double carries, in units of 2^-56/5; it is 0 for     *)
(* exactly represented results and is tracked through the weighted blend   *)
(* of line 75, where 0.3 and 0.2 are not representable and the error       *)
(* decides Math.round at an exact half.                                    *)
(***************************************************************************)
EXTENDS Integers, Sequences, FiniteSets, TLC

\* Number of requests handled concurrently.
NumReq == 2
\* RampSpec sweeps x this many tenths below and above the two thresholds.
RampMargin == 12

Reqs == 1..NumReq

VARIABLES tz, pc, query, month, upstream, io, est, ramp

vars == <<tz, pc, query, month, upstream, io, est, ramp>>

-----------------------------------------------------------------------------
(* JavaScript values *)

Undefined == [t |-> "undefined"]
Null == [t |-> "null"]
NaN == [t |-> "NaN"]
Str(s) == [t |-> "string", s |-> s]
Obj(e) == [t |-> "object", e |-> e]
Num(n, d) == [t |-> "number", num |-> n, den |-> d, err |-> 0]
Dbl(n, e) == [t |-> "number", num |-> n, den |-> 10, err |-> e]
\* A JSON number with one decimal, given in tenths: Tenths(325) is 32.5.
Tenths(n) == Num(n, 10)
\* An integer.
Int1(k) == Num(k, 1)

\* The strings of the model that ToNumber converts to a number (in tenths).
NumericStrings == [s \in {"31"} |-> 310]

\* Faulty variant: a strict comparison with null, which lets undefined through.
IsNullish_NullOnly(v) == v.t = "null"

\* v == null (true of null and undefined), lines 63-78.
IsNullish(v) == v.t \in {"undefined", "null"}

\* !v is false: ToBoolean, line 94 and the || of line 43.
Truthy(v) ==
  CASE v.t \in {"undefined", "null", "NaN"} -> FALSE
    [] v.t = "string" -> v.s # ""
    [] v.t = "number" -> v.num # 0
    [] OTHER -> TRUE

\* ToNumber of the operand of a unary or binary minus.
ToNumber(v) ==
  CASE v.t = "number" -> v
    [] v.t = "null" -> Int1(0)
    [] v.t = "string" ->
         IF v.s \in DOMAIN NumericStrings THEN Tenths(NumericStrings[v.s])
         ELSE IF v.s = "" THEN Int1(0) ELSE NaN
    [] OTHER -> NaN

\* v[key] on a value that is neither null nor undefined.
Get(v, key) ==
  IF v.t = "object" /\ key \in DOMAIN v.e THEN v.e[key] ELSE Undefined

\* v?.[key]
OptGet(v, key) == IF IsNullish(v) THEN Undefined ELSE Get(v, key)

-----------------------------------------------------------------------------
(* Arithmetic of lines 59 and 18 on rationals *)

Sign(n) == IF n < 0 THEN -1 ELSE IF n > 0 THEN 1 ELSE 0

\* -a
Neg(a) == IF a.t = "NaN" THEN NaN ELSE [a EXCEPT !.num = -a.num, !.err = -a.err]

\* a - b
Sub(a, b) ==
  IF a.t = "NaN" \/ b.t = "NaN" THEN NaN
  ELSE Num(a.num * b.den - b.num * a.den, a.den * b.den)

\* a / b; a nonzero number over zero is an infinity (den = 0), 0/0 is NaN.
Div(a, b) ==
  IF a.t = "NaN" \/ b.t = "NaN" THEN NaN
  ELSE IF b.num = 0 THEN (IF a.num = 0 THEN NaN ELSE Num(Sign(a.num), 0))
  ELSE Num(a.num * b.den * Sign(b.num), a.den * b.num * Sign(b.num))

\* a * b
Mul(a, b) ==
  IF a.t = "NaN" \/ b.t = "NaN" THEN NaN
  ELSE IF a.den = 0 \/ b.den = 0 THEN Num(Sign(a.num) * Sign(b.num), 0)
  ELSE Num(a.num * b.num, a.den * b.den)

\* Faulty variant: truncation in place of rounding.
MathRound_Truncate(v) ==
  IF v.t = "NaN" \/ v.den = 0 THEN v ELSE Int1(v.num \div v.den)

\* Math.round(v): the integer floor(v + 1/2).  A double that sits an error
\* below an exact half rounds down.
MathRound(v) ==
  IF v.t = "NaN" \/ v.den = 0 THEN v
  ELSE LET k == (2 * v.num + v.den) \div (2 * v.den)
           half == (2 * v.num + v.den) % (2 * v.den) = 0
       IN Int1(IF half /\ v.err < 0 THEN k - 1 ELSE k)

\* Math.min(100, v) and Math.max(0, v) on the result of Math.round.
MathMin100(v) ==
  IF v.t = "NaN" THEN NaN
  ELSE IF v.den = 0 THEN (IF v.num > 0 THEN Int1(100) ELSE v)
  ELSE IF v.num > 100 THEN Int1(100) ELSE v

MathMax0(v) ==
  IF v.t = "NaN" THEN NaN
  ELSE IF v.den = 0 THEN (IF v.num < 0 THEN Int1(0) ELSE v)
  ELSE IF v.num < 0 THEN Int1(0) ELSE v

\* clampPct, line 18.
clampPct(v) == MathMax0(MathMin100(MathRound(v)))

\* rampUp, line 59.  On the 0.1 grid no ramp value lies within 1/300 of a
\* half, so the rounding error of the double division never reaches
\* Math.round and the quotient is kept exact.
rampUp(x, start, full) ==
  clampPct(Mul(Div(Sub(ToNumber(x), start), Sub(full, start)), Int1(100)))

-----------------------------------------------------------------------------
(* IEEE-754 double arithmetic of line 75.  A double is num/10 + err * U    *)
(* with U = 2^-56/5, so that num/10 is 2^55 * num units and every double   *)
(* below 128 is a whole number of units.                                   *)

\* 2^k mod 5
Pow2Mod5(k) == CASE k % 4 = 0 -> 1 [] k % 4 = 1 -> 2 [] k % 4 = 2 -> 4 [] OTHER -> 3

\* 2^b <= num/10 + err * U
AtLeastPow2(n, e, b) ==
  16 * n > 10 * 2^(b + 4) \/ (16 * n = 10 * 2^(b + 4) /\ e >= 0)

\* Round to nearest double, ties to even: the exact value n/10 + e * U moves
\* to the nearest multiple of its binade's ulp, 2^(b-52) = 5 * 2^(b+4) units.
RoundToDouble(n, e) ==
  IF n = 0 THEN Dbl(0, 0)
  ELSE LET b == CHOOSE k \in -4..6 : AtLeastPow2(n, e, k) /\ ~AtLeastPow2(n, e, k + 1)
           ulp == 5 * 2^(b + 4)
           r == (2^(b + 4) * ((n * Pow2Mod5(51 - b)) % 5) + e) % ulp
           r2 == (2^(b + 5) * ((n * Pow2Mod5(50 - b)) % 5) + e) % (2 * ulp)
           down == 2 * r < ulp \/ (2 * r = ulp /\ r2 = r)
       IN Dbl(n, IF down THEN e - r ELSE e - r + ulp)

\* The literals 0.5, 0.3 and 0.2 as doubles: 0.5 is exact, 0.3 is 4 units
\* low, 0.2 is 4 units high.
DblHalf == Dbl(5, 0)
DblThreeTenths == Dbl(3, -4)
DblTwoTenths == Dbl(2, 4)

\* c * k for a literal c and an integer percentage k.
DblMul(c, k) ==
  IF k.t = "NaN" THEN NaN ELSE RoundToDouble(c.num * k.num, c.err * k.num)

\* a + b
DblAdd(a, b) ==
  IF a.t = "NaN" \/ b.t = "NaN" THEN NaN
  ELSE RoundToDouble(a.num + b.num, a.err + b.err)

\* 0.5 * pVeryHot + 0.3 * pVeryHumid + 0.2 * pVeryWindy, line 75.
Blend(hot, humid, windy) ==
  DblAdd(DblAdd(DblMul(DblHalf, hot), DblMul(DblThreeTenths, humid)),
         DblMul(DblTwoTenths, windy))

-----------------------------------------------------------------------------
(* The estimator, lines 10-15 and 51-89 *)

THRESHOLDS ==
  [veryHotC |-> Int1(30), veryColdC |-> Int1(0),
   veryWindyMS |-> Tenths(83), veryHumidPct |-> Int1(80)]

\* a + b on exact numbers (THRESHOLDS.veryHotC + 5).
Add(a, b) == Sub(a, Neg(b))

\* Faulty variant: the month used as a zero-based index.
MonthlyValue_ZeroBased(p, name, m) == OptGet(OptGet(p, name), m - 1)

\* p?.NAME?.[month], lines 53-56.
MonthlyValue(p, name, m) == OptGet(OptGet(p, name), m)

\* X != null ? rampUp(X, start, full) : 0, lines 63-72 and 78.
RampOrZero(x, start, full) ==
  IF ~IsNullish(x) THEN rampUp(x, start, full) ELSE Int1(0)

\* Line 66: the cold ramp runs on the negated temperature.
ColdRampOrZero(x) ==
  IF ~IsNullish(x)
  THEN rampUp(Neg(ToNumber(x)), Neg(THRESHOLDS.veryColdC), Int1(10))
  ELSE Int1(0)

\* Faulty variant: the weights of humidity and wind exchanged.
pUncomfortable_SwappedWeights(pVeryHot, pVeryHumid, pVeryWindy) ==
  clampPct(Blend(pVeryHot, pVeryWindy, pVeryHumid))

\* Line 75.
pUncomfortable(pVeryHot, pVeryHumid, pVeryWindy) ==
  clampPct(Blend(pVeryHot, pVeryHumid, pVeryWindy))

estimateProbabilitiesForMonth(m, p) ==
  LET T2M == MonthlyValue(p, "T2M", m)
      RH2M == MonthlyValue(p, "RH2M", m)
      PRECTOT == MonthlyValue(p, "PRECTOTCORR", m)
      WS10M == MonthlyValue(p, "WS10M", m)
      pVeryHot == RampOrZero(T2M, THRESHOLDS.veryHotC, Add(THRESHOLDS.veryHotC, Int1(5)))
      pVeryCold == ColdRampOrZero(T2M)
      pVeryWindy == RampOrZero(WS10M, THRESHOLDS.veryWindyMS, Int1(12))
      pVeryHumid == RampOrZero(RH2M, THRESHOLDS.veryHumidPct, Int1(95))
      pRainy == RampOrZero(PRECTOT, Int1(5), Int1(15))
  IN [veryHot |-> pVeryHot,
      veryCold |-> pVeryCold,
      veryWindy |-> pVeryWindy,
      veryHumid |-> pVeryHumid,
      veryUncomfortable |-> pUncomfortable(pVeryHot, pVeryHumid, pVeryWindy),
      rainy |-> pRainy,
      raw |-> [T2M |-> T2M, RH2M |-> RH2M, PRECTOT |-> PRECTOT, WS10M |-> WS10M]]

-----------------------------------------------------------------------------
(* monthFromISO, lines 20-24 *)

\* The server's time zone: a fixed offset from UTC, in hours.
TimeZones == {-5, 0, 9}

\* The date strings of the model that new Date() parses, with their fields.
\* A date-only form is UTC midnight; a date-time form without an offset is
\* local time.  All are dates of 2025.
IsoForms ==
  [s \in {"2025-07-15", "2025-07-01", "2025-12-31T20:00"} |->
     CASE s = "2025-07-15" -> [form |-> "date", mo |-> 7, d |-> 15, h |-> 0]
       [] s = "2025-07-01" -> [form |-> "date", mo |-> 7, d |-> 1, h |-> 0]
       [] OTHER -> [form |-> "local", mo |-> 12, d |-> 31, h |-> 20]]

\* Days of 2025 before the first of each month.
DaysBefore == <<0, 31, 59, 90, 120, 151, 181, 212, 243, 273, 304, 334>>

\* new Date(dateStr): the time value, in hours since 2025-01-01T00:00Z, or
\* NaN for a string that does not parse.
NewDate(dateStr) ==
  IF dateStr.t = "string" /\ dateStr.s \in DOMAIN IsoForms
  THEN LET f == IsoForms[dateStr.s]
           wall == (DaysBefore[f.mo] + f.d - 1) * 24 + f.h
       IN Int1(IF f.form = "local" THEN wall - tz ELSE wall)
  ELSE NaN

\* Date.prototype.getMonth(): the month (0..11) of the local time.
GetMonth(t) ==
  IF t.t = "NaN" THEN NaN
  ELSE LET day == (t.num + tz) \div 24
       IN Int1(IF day < 0 THEN 11
               ELSE IF day >= 365 THEN 0
               ELSE (CHOOSE k \in 1..12 :
                       /\ DaysBefore[k] <= day
                       /\ (k = 12 \/ day < DaysBefore[k + 1])) - 1)

monthFromISO(dateStr) ==
  LET m == Add(GetMonth(NewDate(dateStr)), Int1(1))
  IN IF m.t = "NaN" THEN 7 ELSE m.num

-----------------------------------------------------------------------------
(* getClimatology, lines 31-44, and the handler, lines 91-103 *)

\* j?.properties?.parameter || null, line 43.
ParameterOf(j) ==
  LET x == OptGet(OptGet(j, "properties"), "parameter")
  IN IF Truthy(x) THEN x ELSE Null

\* Faulty variant: the date is not checked.
MissingParam_NoDate(q) == ~Truthy(q.lat) \/ ~Truthy(q.lon)

\* !lat || !lon || !date, line 94.
MissingParam(q) == ~Truthy(q.lat) \/ ~Truthy(q.lon) \/ ~Truthy(q.date)

PctNames == {"veryHot", "veryCold", "veryWindy", "veryHumid", "veryUncomfortable", "rainy"}
RawNames == {"T2M", "RH2M", "PRECTOT", "WS10M"}

\* JSON.stringify of { month, ...result }, line 98: NaN is written as null
\* and an undefined property is left out.
JsonBody(m, result) ==
  [k \in PctNames \cup {"month", "raw"} |->
     IF k = "month" THEN Int1(m)
     ELSE IF k = "raw"
       THEN Obj([n \in {x \in RawNames : result.raw[x].t # "undefined"} |-> result.raw[n]])
     ELSE IF result[k].t = "NaN" THEN Null ELSE result[k]]

ErrorBody(msg) == [k \in {"error"} |-> Str(msg)]

Response(status, body) == [ev |-> "response", status |-> status, body |-> body]
FetchCall(lat, lon) == [ev |-> "fetch", lat |-> lat, lon |-> lon]

\* The catch block, lines 99-102.
Catch(r) ==
  /\ io' = [io EXCEPT ![r] = Append(@, Response(500, ErrorBody("Erreur serveur / donnees indisponibles")))]
  /\ pc' = [pc EXCEPT ![r] = "done"]

NoReply == [fetch |-> "pending", json |-> "pending", j |-> Undefined]

\* Faulty variant: the 400 branch does not return and the handler goes on.
Receive_NoReturn(r, q) ==
  /\ pc[r] = "idle"
  /\ query' = [query EXCEPT ![r] = q]
  /\ month' = [month EXCEPT ![r] = monthFromISO(q.date)]
  /\ io' = [io EXCEPT ![r] =
              (IF ~Truthy(q.lat) \/ ~Truthy(q.lon) \/ ~Truthy(q.date)
               THEN Append(@, Response(400, ErrorBody("lat, lon, date requis")))
               ELSE @) \o <<FetchCall(q.lat, q.lon)>>]
  /\ pc' = [pc EXCEPT ![r] = "awaitFetch"]
  /\ UNCHANGED <<tz, upstream, est, ramp>>

\* A request arrives: lines 93-96, up to the await of line 39.
Receive(r, q) ==
  /\ pc[r] = "idle"
  /\ query' = [query EXCEPT ![r] = q]
  /\ IF MissingParam(q)
     THEN /\ io' = [io EXCEPT ![r] = Append(@, Response(400, ErrorBody("lat, lon, date requis")))]
          /\ pc' = [pc EXCEPT ![r] = "done"]
          /\ UNCHANGED month
     ELSE /\ month' = [month EXCEPT ![r] = monthFromISO(q.date)]
          /\ io' = [io EXCEPT ![r] = Append(@, FetchCall(q.lat, q.lon))]
          /\ pc' = [pc EXCEPT ![r] = "awaitFetch"]
  /\ UNCHANGED <<tz, upstream, est, ramp>>

\* Faulty variant: a rejected fetch is tried again.
FetchRejects_Retry(r) ==
  /\ pc[r] = "awaitFetch"
  /\ Len(io[r]) < 3
  /\ io' = [io EXCEPT ![r] = Append(@, FetchCall(query[r].lat, query[r].lon))]
  /\ UNCHANGED <<tz, pc, query, month, upstream, est, ramp>>

\* fetch(url) rejects (a network error), line 39.
FetchRejects(r) ==
  /\ pc[r] = "awaitFetch"
  /\ upstream' = [upstream EXCEPT ![r].fetch = "rejected"]
  /\ Catch(r)
  /\ UNCHANGED <<tz, query, month, est, ramp>>

\* Faulty variant: the status of the response is not checked.
FetchResolves_IgnoreStatus(r, ok) ==
  /\ pc[r] = "awaitFetch"
  /\ upstream' = [upstream EXCEPT ![r].fetch = IF ok THEN "ok" ELSE "notok"]
  /\ pc' = [pc EXCEPT ![r] = "awaitJson"]
  /\ UNCHANGED <<tz, query, month, io, est, ramp>>

\* fetch(url) resolves with a response whose ok flag is given, lines 39-41.
FetchResolves(r, ok) ==
  /\ pc[r] = "awaitFetch"
  /\ upstream' = [upstream EXCEPT ![r].fetch = IF ok THEN "ok" ELSE "notok"]
  /\ IF ~ok
     THEN Catch(r)
     ELSE /\ pc' = [pc EXCEPT ![r] = "awaitJson"]
          /\ UNCHANGED io
  /\ UNCHANGED <<tz, query, month, est, ramp>>

\* r.json() rejects (the body is not JSON), line 41.
JsonRejects(r) ==
  /\ pc[r] = "awaitJson"
  /\ upstream' = [upstream EXCEPT ![r].json = "rejected"]
  /\ Catch(r)
  /\ UNCHANGED <<tz, query, month, est, ramp>>

\* r.json() resolves with j, lines 41-43 and 97-98.
JsonResolves(r, j) ==
  /\ pc[r] = "awaitJson"
  /\ upstream' = [upstream EXCEPT ![r].json = "parsed", ![r].j = j]
  /\ LET clim == ParameterOf(j)
         result == estimateProbabilitiesForMonth(month[r], clim)
     IN io' = [io EXCEPT ![r] = Append(@, Response(200, JsonBody(month[r], result)))]
  /\ pc' = [pc EXCEPT ![r] = "done"]
  /\ UNCHANGED <<tz, query, month, est, ramp>>

-----------------------------------------------------------------------------
(* Inputs *)

\* A parameter object holding twelve monthly values, keyed 1..12 (line 42),
\* from a sequence of tenths.
Series(tenths) == Obj([m \in DOMAIN tenths |-> Tenths(tenths[m])])

THot == Series(<<290, 300, 305, 313, 325, 337, 340, 350, 362, 320, 301, 280>>)
TCold == Series(<<-150, -100, -95, -50, -1, 0, 1, 40, -25, -73, -101, -120>>)
RHSeries == Series(<<790, 800, 807, 846, 850, 860, 875, 900, 949, 950, 970, 1000>>)
WSSeries == Series(<<20, 83, 84, 87, 100, 101, 80, 119, 120, 125, 150, 82>>)
PRSeries == Series(<<0, 50, 51, 75, 100, 124, 149, 150, 200, 49, 99, 60>>)
\* The upstream's fill value for missing data, and values no climate has.
OutOfRange == Series(<<-9990, -9990, 9990, -9990, 9990, -9990, -9990, 9990, -9990, -9990, 9990, -9990>>)
\* Months 7..12 missing.
HalfYear == Series(<<310, 860, 120, 84, 330, 905>>)
\* Entries that are null or strings.
Malformed ==
  Obj([m \in 1..12 |->
         IF m % 3 = 0 THEN Null ELSE IF m % 3 = 1 THEN Str("n/a") ELSE Str("31")])

ParamRecord(t, rh, pr, ws) ==
  Obj([n \in {x \in {"T2M", "RH2M", "PRECTOTCORR", "WS10M"} :
                (CASE x = "T2M" -> t [] x = "RH2M" -> rh [] x = "PRECTOTCORR" -> pr [] OTHER -> ws).t # "undefined"} |->
         CASE n = "T2M" -> t [] n = "RH2M" -> rh [] n = "PRECTOTCORR" -> pr [] OTHER -> ws])

\* The reply {"properties": {"parameter": p}}.
Reply(p) == Obj([properties |-> Obj([parameter |-> p])])

\* The parsed bodies the upstream sends to the server model.
Bodies ==
  {Null,
   Obj([messages |-> Null]),
   Reply(ParamRecord(THot, RHSeries, PRSeries, WSSeries)),
   Reply(ParamRecord(TCold, RHSeries, PRSeries, Undefined)),
   Reply(ParamRecord(Malformed, HalfYear, OutOfRange, Null))}

Query(lat, lon, date) == [lat |-> lat, lon |-> lon, date |-> date]

\* req.query of the requests: all three parameters present, and each one
\* absent or empty in turn.
Queries ==
  {Query(Str("48.85"), Str("2.35"), Str(d)) : d \in {"2025-07-15", "2025-12-31T20:00", "not-a-date"}}
    \cup {Query(Str("0"), Str("0"), Str("2025-07-01"))}
    \cup {Query(v, Str("2.35"), Str("2025-07-15")) : v \in {Undefined, Str("")}}
    \cup {Query(Str("48.85"), v, Str("2025-07-15")) : v \in {Undefined, Str("")}}
    \cup {Query(Str("48.85"), Str("2.35"), v) : v \in {Undefined, Str("")}}

\* The records and months given to the estimator on its own.
TChoices == {Undefined, Null, THot, TCold, Malformed, OutOfRange, HalfYear}
RHChoices == {Undefined, RHSeries, HalfYear, Malformed}
PRChoices == {Undefined, PRSeries, OutOfRange}
WSChoices == {Undefined, Null, WSSeries, HalfYear, Malformed}

Records ==
  {Null} \cup {ParamRecord(t, rh, pr, ws) :
                 t \in TChoices, rh \in RHChoices, pr \in PRChoices, ws \in WSChoices}

-----------------------------------------------------------------------------
(* Specifications *)

EstIdle == [m |-> 0, p |-> Null, done |-> FALSE, out |-> Undefined]
RampIdle == [start |-> 0, full |-> 0, x |-> 0, y |-> 0, done |-> FALSE, fx |-> Undefined, fy |-> Undefined]

ServerIdle ==
  /\ pc = [r \in Reqs |-> "idle"]
  /\ query = [r \in Reqs |-> Query(Undefined, Undefined, Undefined)]
  /\ month = [r \in Reqs |-> 0]
  /\ upstream = [r \in Reqs |-> NoReply]
  /\ io = [r \in Reqs |-> <<>>]

\* The server: requests arrive and are handled concurrently.
Init ==
  /\ tz \in TimeZones
  /\ ServerIdle
  /\ est = EstIdle
  /\ ramp = RampIdle

Next ==
  \E r \in Reqs :
    \/ \E q \in Queries : Receive(r, q)
    \/ FetchRejects(r)
    \/ \E ok \in BOOLEAN : FetchResolves(r, ok)
    \/ JsonRejects(r)
    \/ \E j \in Bodies : JsonResolves(r, j)

Spec == Init /\ [][Next]_vars

\* The estimator on its own: one call on a month and a record.
EstInit ==
  /\ tz = 0
  /\ ServerIdle
  /\ est \in {[m |-> m, p |-> p, done |-> FALSE, out |-> Undefined] : m \in 1..12, p \in Records}
  /\ ramp = RampIdle

Estimate ==
  /\ ~est.done
  /\ est' = [est EXCEPT !.done = TRUE, !.out = estimateProbabilitiesForMonth(est.m, est.p)]
  /\ UNCHANGED <<tz, pc, query, month, upstream, io, ramp>>

EstNext == Estimate

EstSpec == EstInit /\ [][EstNext]_vars

\* rampUp on its own: one threshold pair and two arguments x <= y, in tenths.
CodePairs == {<<300, 350>>, <<0, 100>>, <<83, 120>>, <<800, 950>>, <<50, 150>>}
RampPairs == CodePairs \cup {<<pr[2], pr[1]>> : pr \in CodePairs}

Lo(pr) == (IF pr[1] < pr[2] THEN pr[1] ELSE pr[2]) - RampMargin
Hi(pr) == (IF pr[1] < pr[2] THEN pr[2] ELSE pr[1]) + RampMargin

RampInit ==
  /\ tz = 0
  /\ ServerIdle
  /\ est = EstIdle
  /\ \E pr \in RampPairs : \E x \in Lo(pr)..Hi(pr) : \E y \in x..Hi(pr) :
       ramp = [start |-> pr[1], full |-> pr[2], x |-> x, y |-> y, done |-> FALSE,
               fx |-> Undefined, fy |-> Undefined]

ApplyRamp ==
  /\ ~ramp.done
  /\ ramp' = [ramp EXCEPT !.done = TRUE,
                          !.fx = rampUp(Tenths(ramp.x), Tenths(ramp.start), Tenths(ramp.full)),
                          !.fy = rampUp(Tenths(ramp.y), Tenths(ramp.start), Tenths(ramp.full))]
  /\ UNCHANGED <<tz, pc, query, month, upstream, io, est>>

RampNext == ApplyRamp

RampSpec == RampInit /\ [][RampNext]_vars

-----------------------------------------------------------------------------
(* Properties of the server (Spec) *)

\* What request r has sent to its client, and asked of the upstream.
Sent(r) == SelectSeq(io[r], LAMBDA e : e.ev = "response")
Calls(r) == SelectSeq(io[r], LAMBDA e : e.ev = "fetch")

\* A query parameter that is absent or empty.
Absent(v) == v.t = "undefined" \/ (v.t = "string" /\ v.s = "")
AnyAbsent(q) == Absent(q.lat) \/ Absent(q.lon) \/ Absent(q.date)

IsError(resp, status) == resp.status = status /\ DOMAIN resp.body = {"error"}
IsResult(resp) == resp.status = 200 /\ DOMAIN resp.body = PctNames \cup {"month", "raw"}

\* The climatology fetch of r has failed: the call rejected, the status was
\* not a success, or the body did not parse.
FetchFailed(r) ==
  upstream[r].fetch \in {"rejected", "notok"} \/ upstream[r].json = "rejected"

\* C1: a request with lat, lon or date absent or empty is answered with
\* status 400 and a body holding an error field, whatever the other
\* parameters are.
C1_MissingParamIs400 ==
  \A r \in Reqs :
    (pc[r] # "idle" /\ AnyAbsent(query[r])) =>
      /\ pc[r] = "done"
      /\ Len(Sent(r)) = 1
      /\ IsError(Sent(r)[1], 400)

C1_Witness ==
  \E r \in Reqs :
    /\ pc[r] = "done"
    /\ ~Absent(query[r].lat) /\ ~Absent(query[r].lon) /\ Absent(query[r].date)
    /\ Len(Sent(r)) = 1 /\ Sent(r)[1].status = 400

\* C2: with lat, lon and date present, a failed climatology fetch is answered
\* with status 500 and a body holding an error field, never with a 200.
C2_FetchFailureIs500 ==
  \A r \in Reqs :
    (~AnyAbsent(query[r]) /\ FetchFailed(r)) =>
      /\ pc[r] = "done"
      /\ Len(Sent(r)) = 1
      /\ IsError(Sent(r)[1], 500)

C2_Witness ==
  \E r1, r2 \in Reqs :
    /\ upstream[r1].fetch = "notok" /\ Len(Sent(r1)) = 1 /\ Sent(r1)[1].status = 500
    /\ upstream[r2].json = "rejected" /\ Len(Sent(r2)) = 1 /\ Sent(r2)[1].status = 500

\* C3: a request is answered exactly once, when its handling ends, and the
\* answer is either a full result (200 with month, the six percentages and
\* raw, no error field) or an error object (400 or 500 with only an error
\* field).
C3_OneResponseResultOrError ==
  \A r \in Reqs :
    /\ Len(Sent(r)) = (IF pc[r] = "done" THEN 1 ELSE 0)
    /\ \A i \in DOMAIN Sent(r) :
         LET resp == Sent(r)[i]
         IN IsResult(resp) \/ IsError(resp, 400) \/ IsError(resp, 500)

C3_Witness ==
  \E r1, r2 \in Reqs :
    /\ pc[r1] = "done" /\ IsResult(Sent(r1)[1])
    /\ pc[r2] = "done" /\ IsError(Sent(r2)[1], 500)

\* The raw value of parameter name for month m in the parsed reply j, read
\* off the reply's structure; undefined when any level is missing.
RawOf(j, name, m) ==
  IF /\ j.t = "object"
     /\ "properties" \in DOMAIN j.e
     /\ j.e.properties.t = "object"
     /\ "parameter" \in DOMAIN j.e.properties.e
     /\ j.e.properties.e.parameter.t = "object"
     /\ name \in DOMAIN j.e.properties.e.parameter.e
     /\ j.e.properties.e.parameter.e[name].t = "object"
     /\ m \in DOMAIN j.e.properties.e.parameter.e[name].e
  THEN j.e.properties.e.parameter.e[name].e[m]
  ELSE Undefined

NoValue(j, name, m) == RawOf(j, name, m).t \in {"undefined", "null"}

\* C5: a successful, parseable upstream reply is answered 200 with all six
\* percentages in the body, and a percentage whose raw monthly value is
\* absent is 0 (veryUncomfortable when its three inputs are absent).
C5_MissingDataIsZero ==
  \A r \in Reqs :
    upstream[r].json = "parsed" =>
      /\ pc[r] = "done"
      /\ Len(Sent(r)) = 1
      /\ Sent(r)[1].status = 200
      /\ PctNames \subseteq DOMAIN Sent(r)[1].body
      /\ LET b == Sent(r)[1].body
             j == upstream[r].j
             m == month[r]
         IN /\ NoValue(j, "T2M", m) => b.veryHot = Int1(0) /\ b.veryCold = Int1(0)
            /\ NoValue(j, "WS10M", m) => b.veryWindy = Int1(0)
            /\ NoValue(j, "RH2M", m) => b.veryHumid = Int1(0)
            /\ NoValue(j, "PRECTOTCORR", m) => b.rainy = Int1(0)
            /\ (NoValue(j, "T2M", m) /\ NoValue(j, "RH2M", m) /\ NoValue(j, "WS10M", m))
                 => b.veryUncomfortable = Int1(0)

C5_Witness ==
  \E r \in Reqs :
    /\ upstream[r].json = "parsed"
    /\ upstream[r].j = Reply(ParamRecord(TCold, RHSeries, PRSeries, Undefined))
    /\ Len(Sent(r)) = 1
    /\ Sent(r)[1].status = 200
    /\ Sent(r)[1].body.veryWindy = Int1(0)
    /\ Sent(r)[1].body.veryCold # Int1(0)

\* C9: the month derived from a parsable date string is the calendar month
\* written in it, the month derived from an unparsable one is 7, and the
\* month is in 1..12.
C9_MonthIsCalendarMonth ==
  \A r \in Reqs :
    (pc[r] # "idle" /\ ~AnyAbsent(query[r])) =>
      /\ month[r] \in 1..12
      /\ month[r] = (IF query[r].date.s \in DOMAIN IsoForms
                     THEN IsoForms[query[r].date.s].mo ELSE 7)

\* The response the handler owes request r, from r's own query and r's own
\* upstream reply.
OwnResponse(r) ==
  IF MissingParam(query[r]) THEN Response(400, ErrorBody("lat, lon, date requis"))
  ELSE IF FetchFailed(r) THEN Response(500, ErrorBody("Erreur serveur / donnees indisponibles"))
  ELSE Response(200, JsonBody(monthFromISO(query[r].date),
                              estimateProbabilitiesForMonth(monthFromISO(query[r].date),
                                                            ParameterOf(upstream[r].j))))

\* C10: under every interleaving a request makes at most one climatology
\* call: exactly one, for its own coordinates, when lat, lon and date are
\* present, none when it is rejected with 400; the call precedes the
\* response; and the response is the one its own query and its own upstream
\* reply determine, so two requests with the same query and reply get the
\* same response.
C10_OneCallOwnResponse ==
  /\ \A r \in Reqs :
       /\ Len(Calls(r)) <= 1
       /\ (pc[r] # "idle" /\ ~AnyAbsent(query[r])) =>
            Calls(r) = <<FetchCall(query[r].lat, query[r].lon)>>
       /\ (pc[r] = "idle" \/ AnyAbsent(query[r])) => Calls(r) = <<>>
       /\ \A i, k \in DOMAIN io[r] :
            (io[r][i].ev = "fetch" /\ io[r][k].ev = "response") => i < k
       /\ pc[r] = "done" => Sent(r) = <<OwnResponse(r)>>
  /\ \A r1, r2 \in Reqs :
       (pc[r1] = "done" /\ pc[r2] = "done"
          /\ query[r1] = query[r2] /\ upstream[r1] = upstream[r2])
         => Sent(r1) = Sent(r2)

C10_Witness ==
  \E r1, r2 \in Reqs :
    /\ pc[r1] = "done" /\ pc[r2] = "done"
    /\ Len(Calls(r1)) = 1 /\ Len(Calls(r2)) = 1
    /\ Calls(r1) # Calls(r2)
    /\ Sent(r1)[1].status = 200 /\ Sent(r2)[1].status = 500
    /\ io[r1][1].ev = "fetch" /\ io[r2][1].ev = "fetch"

-----------------------------------------------------------------------------
(* Properties of the estimator (EstSpec) and of rampUp (RampSpec) *)

IsPct(v) == v.t = "number" /\ v.den = 1 /\ v.err = 0 /\ v.num \in 0..100

\* C4: each of the six percentages of a result is an integer in 0..100,
\* whatever the month and the record.
C4_PercentagesInRange ==
  est.done => \A k \in PctNames : IsPct(est.out[k])

\* k is the percentage nearest to the linear interpolation of x between
\* s -> 0 and f -> 100 (s < f, all in tenths), clamped to 0..100.
IsRampOf(k, x, s, f) ==
  IF x <= s THEN k = 0
  ELSE IF x >= f THEN k = 100
  ELSE k \in 0..100 /\ 2 * (100 * (x - s) - k * (f - s)) <= f - s
                    /\ 2 * (k * (f - s) - 100 * (x - s)) <= f - s

\* The record holds twelve numeric monthly averages for each parameter.
TwelveNumeric(p) ==
  /\ p.t = "object"
  /\ DOMAIN p.e = {"T2M", "RH2M", "PRECTOTCORR", "WS10M"}
  /\ \A n \in DOMAIN p.e :
       /\ p.e[n].t = "object"
       /\ DOMAIN p.e[n].e = 1..12
       /\ \A m \in 1..12 : p.e[n].e[m].t = "number" /\ p.e[n].e[m].den = 10

\* C7: on a record of twelve numeric averages per parameter the estimator
\* reads month m and returns the ramps 30..35 of T, 0..10 of -T, 8.3..12 of
\* W, 80..95 of RH and 5..15 of P; veryCold is 0 from 0 degrees up and 100
\* from -10 degrees down.
C7_RampsOfTheMonth ==
  (est.done /\ TwelveNumeric(est.p)) =>
    LET T == est.p.e.T2M.e[est.m].num
        RH == est.p.e.RH2M.e[est.m].num
        P == est.p.e.PRECTOTCORR.e[est.m].num
        W == est.p.e.WS10M.e[est.m].num
        o == est.out
    IN /\ \A k \in PctNames : IsPct(o[k])
       /\ IsRampOf(o.veryHot.num, T, 300, 350)
       /\ IsRampOf(o.veryCold.num, -T, 0, 100)
       /\ IsRampOf(o.veryWindy.num, W, 83, 120)
       /\ IsRampOf(o.veryHumid.num, RH, 800, 950)
       /\ IsRampOf(o.rainy.num, P, 50, 150)
       /\ T >= 0 => o.veryCold.num = 0
       /\ T <= -100 => o.veryCold.num = 100

C7_Witness ==
  /\ est.done
  /\ TwelveNumeric(est.p)
  /\ est.p.e.T2M.e[est.m] = Tenths(-100)
  /\ est.out.veryCold = Int1(100)
  /\ est.out.veryHot = Int1(0)

\* C8: veryUncomfortable is clampPct of the blend of the rounded veryHot,
\* veryHumid and veryWindy of the same result and of nothing else: an
\* integer within one half of 0.5*hot + 0.3*humid + 0.2*windy (80, 50, 0
\* gives 55).
C8_UncomfortableIsBlend ==
  est.done =>
    LET o == est.out
    IN /\ o.veryUncomfortable = clampPct(Blend(o.veryHot, o.veryHumid, o.veryWindy))
       /\ (IsPct(o.veryHot) /\ IsPct(o.veryHumid) /\ IsPct(o.veryWindy)) =>
            LET blend10 == 5 * o.veryHot.num + 3 * o.veryHumid.num + 2 * o.veryWindy.num
            IN /\ IsPct(o.veryUncomfortable)
               /\ 10 * o.veryUncomfortable.num - blend10 <= 5
               /\ blend10 - 10 * o.veryUncomfortable.num <= 5
       /\ (o.veryHot = Int1(80) /\ o.veryHumid = Int1(50) /\ o.veryWindy = Int1(0)) =>
            o.veryUncomfortable = Int1(55)

C8_Witness ==
  /\ est.done
  /\ est.out.veryHot = Int1(80)
  /\ est.out.veryHumid = Int1(50)
  /\ est.out.veryWindy = Int1(0)
  /\ est.out.veryUncomfortable = Int1(55)
  /\ est.out.veryCold = Int1(0)

\* What C6 says of one threshold pair and two arguments x <= y.
RampUpShape ==
  LET s == ramp.start
      f == ramp.full
      span == IF f > s THEN f - s ELSE s - f
  IN /\ IsPct(ramp.fx) /\ IsPct(ramp.fy)
     /\ ramp.x = s => ramp.fx = Int1(0)
     /\ ramp.x = f => ramp.fx = Int1(100)
     /\ ramp.fx.num <= ramp.fy.num
     /\ ramp.x < s => ramp.fx = Int1(0)
     /\ ramp.y > f => ramp.fy = Int1(100)
     /\ ((s <= ramp.x /\ ramp.x <= f) \/ (f <= ramp.x /\ ramp.x <= s)) =>
          /\ 2 * (100 * (ramp.x - s) - ramp.fx.num * (f - s)) <= span
          /\ 2 * (ramp.fx.num * (f - s) - 100 * (ramp.x - s)) <= span
     /\ (s = 300 /\ f = 350) =>
          /\ ramp.x = 300 => ramp.fx = Int1(0)
          /\ ramp.x = 325 => ramp.fx = Int1(50)
          /\ ramp.x = 350 => ramp.fx = Int1(100)

====
